---- MODULE Spec2Model ----
(***************************************************************************)
(* A model of file_tree_viewer.py: the FileTreeViewer window, its tree     *)
(* widget, the tree_items / checked_items maps, the background walk        *)
(* (load_tree_thread / populate_tree) and the text rendering               *)
(* (generate_output / process_item_for_output).                            *)
(*                                                                         *)
(* Python strings are modelled as sequences of one-character strings, so   *)
(* that basename, substring, endswith, split and the regular expression of *)
(* should_ignore are computed, not assumed.                                *)
(*                                                                         *)
(* Threads.  All handlers run on the Tk main thread, one at a time.  The   *)
(* worker thread runs load_tree_thread.  Every widget call the worker makes*)
(* (tree.insert, after) is executed by the main thread between two         *)
(* handlers, so it is one atomic step; the worker's own assignment         *)
(* self.tree_items[tree_id] = {...} is plain Python and may land between   *)
(* two handlers or while a handler is running.                             *)
(***************************************************************************)
EXTENDS Integers, Sequences, FiniteSets, TLC

VARIABLES
    current_dir,        \* self.current_dir (tk.StringVar)
    config_patterns,    \* self.config_data["ignored_patterns"]
    recent_directories, \* self.config_data["recent_directories"]
    is_loading,         \* self.is_loading
    status_text,        \* self.status_text (tk.StringVar)
    tree,               \* self.tree (ttk.Treeview): iid -> row
    tree_items,         \* self.tree_items: iid -> info
    checked_items,      \* self.checked_items
    threads,            \* the live load_tree_thread threads: arguments and position
    after_queue,        \* callbacks scheduled with self.after(0, ...), not yet run
    clipboard           \* the clipboard: what generate_output last put there

vars == <<current_dir, config_patterns, recent_directories, is_loading,
          status_text, tree, tree_items, checked_items, threads, after_queue,
          clipboard>>

----------------------------------------------------------------------------
(* Strings *)

NL == "\n"

Lowers == <<"a","b","c","d","e","f","g","h","i","j","k","l","m",
            "n","o","p","q","r","s","t","u","v","w","x","y","z">>

Uppers == <<"A","B","C","D","E","F","G","H","I","J","K","L","M",
            "N","O","P","Q","R","S","T","U","V","W","X","Y","Z">>

IndexIn(c, seq) ==
    IF \E i \in 1..Len(seq) : seq[i] = c
    THEN CHOOSE i \in 1..Len(seq) : seq[i] = c
    ELSE 0

\* str.lower() on one character
LowerChar(c) == IF IndexIn(c, Uppers) > 0 THEN Lowers[IndexIn(c, Uppers)] ELSE c

\* str.lower()
Lower(s) == [i \in 1..Len(s) |-> LowerChar(s[i])]

\* ord(c) for the characters that occur in the modelled file names
Ord(c) ==
    IF IndexIn(c, Lowers) > 0 THEN 96 + IndexIn(c, Lowers)
    ELSE IF IndexIn(c, Uppers) > 0 THEN 64 + IndexIn(c, Uppers)
    ELSE CASE c = NL  -> 10
           [] c = "*" -> 42
           [] c = "." -> 46
           [] c = "/" -> 47
           [] c = "_" -> 95
           [] OTHER   -> 0

\* a < b for Python strings (lexicographic by code point)
RECURSIVE StrLess(_, _)
StrLess(a, b) ==
    IF b = <<>> THEN FALSE
    ELSE IF a = <<>> THEN TRUE
    ELSE IF Ord(Head(a)) # Ord(Head(b)) THEN Ord(Head(a)) < Ord(Head(b))
    ELSE StrLess(Tail(a), Tail(b))

\* s.startswith(p)
StartsWith(s, p) == Len(p) <= Len(s) /\ SubSeq(s, 1, Len(p)) = p

\* s.endswith(p)
EndsWith(s, p) == Len(p) <= Len(s) /\ SubSeq(s, Len(s) - Len(p) + 1, Len(s)) = p

\* p in s
Contains(s, p) == \E i \in 0..(Len(s) - Len(p)) : SubSeq(s, i + 1, i + Len(p)) = p

\* s.replace('*', '.*')
RECURSIVE ReplaceStar(_)
ReplaceStar(s) ==
    IF s = <<>> THEN <<>>
    ELSE (IF Head(s) = "*" THEN <<".", "*">> ELSE <<Head(s)>>) \o ReplaceStar(Tail(s))

\* s.split('\n')
RECURSIVE Split(_)
Split(s) ==
    IF ~ \E i \in 1..Len(s) : s[i] = NL THEN <<s>>
    ELSE LET i == CHOOSE k \in 1..Len(s) :
                     s[k] = NL /\ \A j \in 1..(k - 1) : s[j] # NL
         IN  <<SubSeq(s, 1, i - 1)>> \o Split(SubSeq(s, i + 1, Len(s)))

\* os.path.basename(path)
basename(path) ==
    IF ~ \E i \in 1..Len(path) : path[i] = "/" THEN path
    ELSE LET i == CHOOSE k \in 1..Len(path) :
                     path[k] = "/" /\ \A j \in (k + 1)..Len(path) : path[j] # "/"
         IN  SubSeq(path, i + 1, Len(path))

\* os.path.join(path, item)
join(path, item) ==
    IF EndsWith(path, <<"/">>) THEN path \o item ELSE path \o <<"/">> \o item

\* re.match("^" + regex + "$", s) for a regex of literal characters, "." and
\* ".*" (every "*" of the regex follows a "." that ReplaceStar put there)
RECURSIVE ReMatch(_, _)
ReMatch(regex, s) ==
    IF regex = <<>> THEN s = <<>>
    ELSE IF Len(regex) >= 2 /\ regex[2] = "*"
         THEN \/ ReMatch(SubSeq(regex, 3, Len(regex)), s)
              \/ /\ s # <<>>
                 /\ (regex[1] = "." \/ regex[1] = Head(s))
                 /\ ReMatch(regex, Tail(s))
         ELSE /\ s # <<>>
              /\ (regex[1] = "." \/ regex[1] = Head(s))
              /\ ReMatch(Tail(regex), Tail(s))

----------------------------------------------------------------------------
(* The file system the program runs on: two directories the user can open. *)

n_src          == <<"s","r","c">>
n_lib          == <<"l","i","b">>
n_b_py         == <<"b",".","p","y">>
n_node_modules == <<"n","o","d","e","_","m","o","d","u","l","e","s">>
n_x_js         == <<"x",".","j","s">>
n_tmp          == <<"T","m","p">>
n_pycache      == <<"_","_","p","y","c","a","c","h","e","_","_">>
n_m_pyc        == <<"m",".","p","y","c">>
n_a_txt        == <<"a",".","t","x","t">>
n_my_modules   == <<"m","y","_">> \o n_node_modules
n_k            == <<"k">>

RootW == <<"/","w">>
RootV == <<"/","v">>

\* the directories load_directory is called with
Roots == {RootW, RootV}

\* /w/src, /w/src/lib, /w/src/node_modules, /w/src/Tmp, /w/__pycache__
W_src          == join(RootW, n_src)
W_lib          == join(W_src, n_lib)
W_node_modules == join(W_src, n_node_modules)
W_tmp          == join(W_src, n_tmp)
W_pycache      == join(RootW, n_pycache)
\* /v/my_node_modules
V_my_modules   == join(RootV, n_my_modules)

\* /w/src/lib/b.py, /w/src/node_modules/x.js, /w/__pycache__/m.pyc,
\* /v/a.txt, /v/my_node_modules/k
W_b_py  == join(W_lib, n_b_py)
W_x_js  == join(W_node_modules, n_x_js)
W_m_pyc == join(W_pycache, n_m_pyc)
V_a_txt == join(RootV, n_a_txt)
V_k     == join(V_my_modules, n_k)

\* a path that is no directory: load_directory ignores it
NotADir == V_a_txt

\* os.listdir(path), in the order the file system returns the names
listdir(path) ==
    CASE path = RootW -> <<n_src, n_pycache>>
      [] path = W_src -> <<n_tmp, n_node_modules, n_lib>>
      [] path = W_lib -> <<n_b_py>>
      [] path = W_node_modules -> <<n_x_js>>
      [] path = W_tmp -> <<>>
      [] path = W_pycache -> <<n_m_pyc>>
      [] path = RootV -> <<n_a_txt, n_my_modules>>
      [] path = V_my_modules -> <<n_k>>
      [] OTHER -> <<>>

DirPaths ==
    {RootW, W_src, W_lib, W_node_modules, W_tmp, W_pycache, RootV, V_my_modules}

FilePaths == {W_b_py, W_x_js, W_m_pyc, V_a_txt, V_k}

\* os.path.isdir(path)
isdir(path) == path \in DirPaths

\* a line cap the user has put under "max_lines" in config.json;
\* file_tree_viewer.py reads no such key
MaxLinesSetting == 2

\* a text of MaxLinesSetting + 2 lines, each "x"
LongText == [k \in 1..(2 * (MaxLinesSetting + 2) - 1) |-> IF k % 2 = 1 THEN "x" ELSE NL]

\* the bytes of a file
FileBytes(path) ==
    CASE path = V_a_txt -> <<"h","e","l","l","o",NL>>
      [] path = W_b_py -> LongText
      [] path = W_x_js -> <<"j">>
      [] path = W_m_pyc -> <<"NUL","c">>
      [] path = V_k -> <<"k">>
      [] OTHER -> <<>>

\* DEFAULT_CONFIG["ignored_patterns"]
DefaultPatterns ==
    << n_pycache, <<"*",".","p","y","c">>, <<"*",".","p","y","o">>,
       <<"*",".","j","p","g">>, <<"*",".","p","n","g">>, <<"*",".","g","i","f">>,
       <<"*",".","p","d","f">> >>

\* the pattern lists the configuration file and the Edit Ignored Patterns
\* dialog hold
PatternChoices == {DefaultPatterns}

----------------------------------------------------------------------------
(* should_ignore *)

PatternMatches(pattern, path) ==
    LET filename == basename(path) IN
    \/ pattern = filename
    \/ Contains(path, pattern)
    \/ StartsWith(pattern, <<"*", ".">>) /\ EndsWith(filename, Tail(pattern))
    \/ ReMatch(ReplaceStar(pattern), filename)

should_ignore(path, ignore_patterns) ==
    \E i \in 1..Len(ignore_patterns) : PatternMatches(ignore_patterns[i], path)

----------------------------------------------------------------------------
(* The tree widget and the walk *)

\* the checkbox glyphs of column "checked"
Unchecked == "unchecked"
Checked   == "checked"

\* item identifiers: f"{parent}_{hash(item_path)}" and
\* f"{parent}_error_{hash(directory)}"; hash is taken to be injective on the
\* paths of one walk, and parent is the identifier of the path's directory
RootId == <<"root", <<>>>>
ItemId(item_path) == <<"item", item_path>>
ErrorId(directory) == <<"error", directory>>

\* get_all_files(path) inside populate_tree
get_all_files(path) ==
    IF isdir(path) THEN [i \in 1..Len(listdir(path)) |-> join(path, listdir(path)[i])]
    ELSE <<>>

\* list.sort(key=lambda x: x[0]): the sort without the lower() of its key
RECURSIVE InsertSortedCaseSensitive(_, _)
InsertSortedCaseSensitive(sorted, item_path) ==
    IF sorted = <<>> THEN <<item_path>>
    ELSE IF StrLess(basename(item_path), basename(Head(sorted)))
         THEN <<item_path>> \o sorted
         ELSE <<Head(sorted)>> \o InsertSortedCaseSensitive(Tail(sorted), item_path)

\* list.sort(key=lambda x: x[0].lower()): stable
RECURSIVE InsertSorted(_, _)
InsertSorted(sorted, item_path) ==
    IF sorted = <<>> THEN <<item_path>>
    ELSE IF StrLess(Lower(basename(item_path)), Lower(basename(Head(sorted))))
         THEN <<item_path>> \o sorted
         ELSE <<Head(sorted)>> \o InsertSorted(Tail(sorted), item_path)

RECURSIVE SortByLowerName(_)
SortByLowerName(items) ==
    IF items = <<>> THEN <<>>
    ELSE InsertSorted(SortByLowerName(SubSeq(items, 1, Len(items) - 1)),
                      items[Len(items)])

\* the loop of populate_tree that splits the entries into dirs and files
KeptItems(all_items, ignored_patterns) ==
    SelectSeq(all_items, LAMBDA p :
        /\ basename(p) \notin {<<".">>, <<".", ".">>}
        /\ ~ should_ignore(p, ignored_patterns))

DirsThenFiles(all_items, ignored_patterns) ==
    LET kept == KeptItems(all_items, ignored_patterns) IN
    SortByLowerName(SelectSeq(kept, isdir))
      \o SortByLowerName(SelectSeq(kept, LAMBDA p : ~ isdir(p)))

\* the shared-state effects of populate_tree(parent, directory,
\* ignored_patterns), in program order: tree.insert calls and tree_items
\* assignments
RECURSIVE populate_tree(_, _, _)
RECURSIVE populate_items(_, _, _)
populate_items(parent, items, ignored_patterns) ==
    IF items = <<>> THEN <<>>
    ELSE LET item_path == Head(items)
             item_name == basename(item_path)
             unique_id == ItemId(item_path)
             ins(text, type) ==
                 [op |-> "insert", parent |-> parent, iid |-> unique_id,
                  text |-> text, values |-> <<Unchecked, type, item_path>>]
             reg(type, ign) ==
                 [op |-> "register", iid |-> unique_id,
                  info |-> [path |-> item_path, type |-> type, is_ignored |-> ign]]
             this ==
                 IF isdir(item_path)
                 THEN IF item_name = n_node_modules
                      THEN << ins(<<"skipped content", item_name>>, "directory"),
                              reg("directory", TRUE) >>
                      ELSE << ins(<<"name", item_name>>, "directory"),
                              reg("directory", FALSE) >>
                           \o populate_tree(unique_id, item_path, ignored_patterns)
                 ELSE << ins(<<"name", item_name>>, "file"), reg("file", FALSE) >>
         IN  this \o populate_items(parent, Tail(items), ignored_patterns)

populate_tree(parent, directory, ignored_patterns) ==
    LET all_items == get_all_files(directory) IN
    IF all_items = <<>>
    THEN << [op |-> "insert", parent |-> parent, iid |-> ErrorId(directory),
             text |-> <<"Error: Permission denied or empty directory">>,
             values |-> <<>>] >>
    ELSE populate_items(parent, DirsThenFiles(all_items, ignored_patterns),
                        ignored_patterns)

\* load_tree_thread without the finally clause that resets is_loading
load_tree_thread_never_resets(directory, ignored_patterns) ==
    << [op |-> "after", callback |-> [set |-> "status_text", to |-> <<"Loading">>]] >>
      \o populate_tree(RootId, directory, ignored_patterns)
      \o << [op |-> "after",
             callback |-> [set |-> "status_text", to |-> <<"Loaded", directory>>]] >>

\* the steps of load_tree_thread(directory) once ignored_patterns is read
load_tree_thread(directory, ignored_patterns) ==
    << [op |-> "after", callback |-> [set |-> "status_text", to |-> <<"Loading">>]] >>
      \o populate_tree(RootId, directory, ignored_patterns)
      \o << [op |-> "after",
             callback |-> [set |-> "status_text", to |-> <<"Loaded", directory>>]],
            [op |-> "after", callback |-> [set |-> "is_loading", to |-> FALSE]] >>

\* the walks, computed once
WalkOf == [d \in Roots, p \in PatternChoices |-> load_tree_thread(d, p)]

\* the step a thread is about to take; pc = 0: it has not yet read
\* self.config_data["ignored_patterns"] (line 325)
NextStep(t) ==
    IF t.pc = 0 THEN [op |-> "read_config"] ELSE WalkOf[t.directory, t.patterns][t.pc]

\* the thread list after thread i has taken a step: a thread that has run its
\* last step (the finally clause) is gone
Advance(i) ==
    LET t == threads[i] IN
    IF t.pc > 0 /\ t.pc = Len(WalkOf[t.directory, t.patterns])
    THEN [j \in 1..(Len(threads) - 1) |-> IF j < i THEN threads[j] ELSE threads[j + 1]]
    ELSE [threads EXCEPT ![i].pc = t.pc + 1]

EmptyTree == (RootId :> [parent |-> RootId, children |-> <<>>, text |-> <<>>, values |-> <<>>])

\* self.tree.insert(parent, "end", iid, text=..., values=...)
tree_insert(tr, step) ==
    (step.iid :> [parent |-> step.parent, children |-> <<>>,
                  text |-> step.text, values |-> step.values])
      @@ [tr EXCEPT ![step.parent].children = Append(@, step.iid)]

\* self.tree.get_children(item)
get_children(tr, item) == tr[item].children

\* self.tree.next(item): the next sibling, or RootId standing for ""
tree_next(tr, item) ==
    LET sibs == tr[tr[item].parent].children
        i == CHOOSE k \in 1..Len(sibs) : sibs[k] = item
    IN  IF i = Len(sibs) THEN RootId ELSE sibs[i + 1]

----------------------------------------------------------------------------
(* The worker thread *)

\* line 325: ignored_patterns = self.config_data.get("ignored_patterns", ...)
WorkerReadConfig(i) ==
    /\ NextStep(threads[i]).op = "read_config"
    /\ threads' = [threads EXCEPT ![i].patterns = config_patterns, ![i].pc = 1]
    /\ UNCHANGED <<current_dir, config_patterns, recent_directories, is_loading,
                   status_text, tree, tree_items, checked_items, after_queue,
                   clipboard>>

\* self.after(0, callback) called by the worker
WorkerAfter(i) ==
    /\ NextStep(threads[i]).op = "after"
    /\ after_queue' = Append(after_queue, NextStep(threads[i]).callback)
    /\ threads' = Advance(i)
    /\ UNCHANGED <<current_dir, config_patterns, recent_directories, is_loading,
                   status_text, tree, tree_items, checked_items, clipboard>>

\* self.tree.insert(...) called by the worker (lines 365, 401, 413, 428)
WorkerInsert(i) ==
    /\ NextStep(threads[i]).op = "insert"
    /\ tree' = tree_insert(tree, NextStep(threads[i]))
    /\ threads' = Advance(i)
    /\ UNCHANGED <<current_dir, config_patterns, recent_directories, is_loading,
                   status_text, tree_items, checked_items, after_queue, clipboard>>

\* self.tree_items[tree_id] = {...} done by the worker (lines 406, 418, 433)
Registered(items, step) == (step.iid :> step.info) @@ items

WorkerRegister(i) ==
    /\ NextStep(threads[i]).op = "register"
    /\ tree_items' = Registered(tree_items, NextStep(threads[i]))
    /\ threads' = Advance(i)
    /\ UNCHANGED <<current_dir, config_patterns, recent_directories, is_loading,
                   status_text, tree, checked_items, after_queue, clipboard>>

\* What the worker does to tree_items while a handler of the main thread runs:
\* nothing, or the one assignment it is about to make lands after the handler
\* has read tree_items (an assignment that lands before the handler reads is
\* WorkerRegister followed by the handler).
WorkerMeanwhile(land) ==
    IF land
    THEN \E i \in 1..Len(threads) :
            /\ NextStep(threads[i]).op = "register"
            /\ tree_items' = Registered(tree_items, NextStep(threads[i]))
            /\ threads' = Advance(i)
    ELSE UNCHANGED <<tree_items, threads>>

----------------------------------------------------------------------------
(* Selection *)

\* values[0] = ...; self.tree.item(id, values=values); checked_items.add/discard
SetCheck(st, item_id, checked) ==
    [tree |-> [st.tree EXCEPT ![item_id].values[1] =
                                 IF checked THEN Checked ELSE Unchecked],
     checked |-> IF checked THEN st.checked \cup {item_id}
                 ELSE st.checked \ {item_id}]

\* Selectable without its is_ignored test
SelectableForgetsIgnored(items, item_id) == item_id \in DOMAIN items

\* the test of lines 499, 519 and 532: item_info and not item_info["is_ignored"]
Selectable(items, item_id) ==
    item_id \in DOMAIN items /\ ~ items[item_id].is_ignored

\* update_children_check(parent_id, checked) on the tree and selection st
RECURSIVE update_children_check(_, _, _, _)
RECURSIVE update_each_child(_, _, _, _)
\* update_children_check that stops at the children and does not recurse
update_children_shallow(st, items, parent_id, checked) ==
    LET children == get_children(st.tree, parent_id)
        hit == {children[k] : k \in 1..Len(children)} \cap
                 {c \in DOMAIN items : ~ items[c].is_ignored}
    IN  [tree |-> [x \in DOMAIN st.tree |->
                     IF x \in hit
                     THEN [st.tree[x] EXCEPT !.values[1] =
                              IF checked THEN Checked ELSE Unchecked]
                     ELSE st.tree[x]],
         checked |-> IF checked THEN st.checked \cup hit ELSE st.checked \ hit]

update_each_child(st, items, children, checked) ==
    IF children = <<>> THEN st
    ELSE LET child_id == Head(children)
             st1 == IF Selectable(items, child_id)
                    THEN IF items[child_id].type = "directory"
                         THEN update_children_check(
                                  SetCheck(st, child_id, checked), items,
                                  child_id, checked)
                         ELSE SetCheck(st, child_id, checked)
                    ELSE st
         IN  update_each_child(st1, items, Tail(children), checked)

update_children_check(st, items, parent_id, checked) ==
    update_each_child(st, items, get_children(st.tree, parent_id), checked)

\* toggle_check that takes the new value from membership in checked_items
\* only when checking, and never discards
toggle_check_never_discards(st, items, item_id) ==
    IF item_id \notin DOMAIN items \/ items[item_id].is_ignored THEN st
    ELSE LET current_value == st.tree[item_id].values[1]
             new_value == IF current_value = Unchecked THEN Checked ELSE Unchecked
         IN  [tree |-> [st.tree EXCEPT ![item_id].values[1] = new_value],
              checked |-> st.checked \cup {item_id}]

\* toggle_check(item_id) on the tree and selection st
toggle_check(st, items, item_id) ==
    IF item_id \notin DOMAIN items \/ items[item_id].is_ignored THEN st
    ELSE LET current_value == st.tree[item_id].values[1]
             new_value == IF current_value = Unchecked THEN Checked ELSE Unchecked
             st1 == [tree |-> [st.tree EXCEPT ![item_id].values[1] = new_value],
                     checked |-> IF new_value = Checked
                                 THEN st.checked \cup {item_id}
                                 ELSE st.checked \ {item_id}]
         IN  IF items[item_id].type = "directory"
             THEN update_children_check(st1, items, item_id, new_value = Checked)
             ELSE st1

\* the loops of check_all (checked = TRUE) and uncheck_all (checked = FALSE)
\* over self.tree.get_children()
RECURSIVE set_all(_, _, _, _)
set_all(st, items, top, checked) ==
    IF top = <<>> THEN st
    ELSE LET item_id == Head(top)
             st1 == IF Selectable(items, item_id)
                    THEN IF items[item_id].type = "directory"
                         THEN update_children_check(
                                  SetCheck(st, item_id, checked), items,
                                  item_id, checked)
                         ELSE SetCheck(st, item_id, checked)
                    ELSE st
         IN  set_all(st1, items, Tail(top), checked)

check_all(st, items) == set_all(st, items, get_children(st.tree, RootId), TRUE)

uncheck_all(st, items) == set_all(st, items, get_children(st.tree, RootId), FALSE)

Selection == [tree |-> tree, checked |-> checked_items]

\* the rows a click can land on
Rows == DOMAIN tree \ {RootId}

\* on_tree_click on the checkbox cell of row item_id
OnTreeClick(item_id, land) ==
    /\ item_id \in Rows
    /\ LET st == toggle_check(Selection, tree_items, item_id)
       IN  tree' = st.tree /\ checked_items' = st.checked
    /\ WorkerMeanwhile(land)
    /\ UNCHANGED <<current_dir, config_patterns, recent_directories, is_loading,
                   status_text, after_queue, clipboard>>

\* on_tree_double_click on row item_id
OnTreeDoubleClick(item_id, land) ==
    /\ item_id \in Rows
    /\ LET st == IF /\ item_id \in DOMAIN tree_items
                    /\ tree_items[item_id].type = "file"
                    /\ ~ tree_items[item_id].is_ignored
                 THEN toggle_check(Selection, tree_items, item_id)
                 ELSE Selection
       IN  tree' = st.tree /\ checked_items' = st.checked
    /\ WorkerMeanwhile(land)
    /\ UNCHANGED <<current_dir, config_patterns, recent_directories, is_loading,
                   status_text, after_queue, clipboard>>

\* the Check All button
CheckAll(land) ==
    /\ LET st == check_all(Selection, tree_items)
       IN  tree' = st.tree /\ checked_items' = st.checked
    /\ WorkerMeanwhile(land)
    /\ UNCHANGED <<current_dir, config_patterns, recent_directories, is_loading,
                   status_text, after_queue, clipboard>>

\* the Uncheck All button
UncheckAll(land) ==
    /\ LET st == uncheck_all(Selection, tree_items)
       IN  tree' = st.tree /\ checked_items' = st.checked
    /\ WorkerMeanwhile(land)
    /\ UNCHANGED <<current_dir, config_patterns, recent_directories, is_loading,
                   status_text, after_queue, clipboard>>

----------------------------------------------------------------------------
(* Rendering *)

\* os.path.isfile(file_path) and os.access(file_path, os.R_OK)
isfile(path) == path \in FilePaths

\* f.read(8192) of get_file_content
BinaryProbe == 8192

\* get_file_content(file_path); the three fixed answers stand for the
\* "(...)" messages of lines 58, 64 and 71.  The lru_cache returns what the
\* first call returned, which is the same text: the files do not change.
get_file_content(file_path) ==
    IF ~ isfile(file_path) THEN <<"(file not readable)">>
    ELSE LET bytes == FileBytes(file_path)
             first_bytes == SubSeq(bytes, 1,
                 IF Len(bytes) < BinaryProbe THEN Len(bytes) ELSE BinaryProbe)
         IN  IF \E k \in 1..Len(first_bytes) : first_bytes[k] = "NUL"
             THEN <<"(binary file, content not shown)">>
             ELSE bytes

\* the connectors and guides of lines 602-603 (box-drawing characters in the
\* source), each four characters wide
ConnLast == "+-- "
ConnTee  == "|-- "
GuideGap == "    "
GuideBar == "|   "

\* "-" * 40
SeparatorWidth == 40
Separator == [k \in 1..SeparatorWidth |-> "-"]

ContentSkipped == <<"<-- Content skipped -->">>
NodeModulesSkipped == <<"<-- node_modules (skipped) -->">>
EmptyDirectory == <<"(empty directory)">>

\* one line of output: prefix + text + "\n"
Line(prefix, text) == [prefix |-> prefix, text |-> text]

\* lines 610-614: the content block of a checked file
ContentBlock(path, child_prefix) ==
    LET lines == Split(get_file_content(path)) IN
    [k \in 1..Len(lines) |-> Line(child_prefix, lines[k])]
      \o << Line(child_prefix, Separator) >>

\* line 619: the directory is descended into
Descends(item_info) == item_info.type = "directory" /\ ~ item_info.is_ignored

\* process_item_for_output(item_id, prefix) on the view v = [tree, items, checked]
RECURSIVE process_item_for_output(_, _, _)
RECURSIVE process_children(_, _, _, _)
process_children(v, children, i, child_prefix) ==
    IF i > Len(children) THEN <<>>
    ELSE LET child_id == children[i]
             is_last_child == (i = Len(children))
             this ==
                 IF child_id \in DOMAIN v.items
                 THEN LET child_info == v.items[child_id] IN
                      IF child_id \in v.checked \/ child_info.type = "directory"
                      THEN process_item_for_output(v, child_id, child_prefix)
                      ELSE << Line(Append(child_prefix,
                                     IF is_last_child THEN ConnLast ELSE ConnTee),
                                   basename(child_info.path)),
                              Line(Append(child_prefix,
                                     IF is_last_child THEN GuideGap ELSE GuideBar),
                                   ContentSkipped) >>
                 ELSE <<>>
         IN  this \o process_children(v, children, i + 1, child_prefix)

process_item_for_output(v, item_id, prefix) ==
    IF item_id \notin DOMAIN v.items THEN <<>>
    ELSE LET item_info == v.items[item_id]
             name == basename(item_info.path)
             is_checked == item_id \in v.checked
             is_last == (tree_next(v.tree, item_id) = RootId)
             item_prefix == Append(prefix, IF is_last THEN ConnLast ELSE ConnTee)
             child_prefix == Append(prefix, IF is_last THEN GuideGap ELSE GuideBar)
             rest ==
                 IF item_info.type = "file"
                 THEN IF is_checked
                      THEN ContentBlock(item_info.path, child_prefix)
                      ELSE << Line(child_prefix, ContentSkipped) >>
                 ELSE IF Descends(item_info)
                 THEN IF EndsWith(item_info.path, n_node_modules)
                      THEN << Line(child_prefix, NodeModulesSkipped) >>
                      ELSE LET children == get_children(v.tree, item_id) IN
                           IF children = <<>>
                           THEN << Line(child_prefix, EmptyDirectory) >>
                           ELSE process_children(v, children, 1, child_prefix)
                 ELSE <<>>
         IN  << Line(item_prefix, name) >> \o rest

RECURSIVE process_top(_, _)
process_top(v, top) ==
    IF top = <<>> THEN <<>>
    ELSE process_item_for_output(v, Head(top), <<>>) \o process_top(v, Tail(top))

\* the text generate_output builds (lines 577-582)
generate_output(v, directory) ==
    << Line(<<>>, <<"ContentTree: ", directory>>) >>
      \o process_top(v, get_children(v.tree, RootId))

View == [tree |-> tree, items |-> tree_items, checked |-> checked_items]

\* the Generate & Copy Output button.  show_copy_notification only opens and
\* later closes a toplevel window that nothing else reads.
GenerateOutput(land) ==
    /\ status_text' = <<"Output generated and copied to clipboard">>
    /\ WorkerMeanwhile(land)
    /\ UNCHANGED <<current_dir, config_patterns, recent_directories, is_loading,
                   tree, checked_items, after_queue>>
    /\ clipboard' = generate_output(View, current_dir)

----------------------------------------------------------------------------
(* Refresh, load, patterns, callbacks *)

\* refresh_tree without its "Skip if already loading" guard
RefreshAlwaysAccepted(loading) == TRUE

\* the guard of refresh_tree (line 302): the call goes ahead
RefreshAccepted(loading) == ~ loading

\* refresh_tree that keeps the selection
KeptSelection(checked) == checked

\* line 314: self.checked_items = set()
ClearedSelection(checked) == {}

\* refresh_tree() with self.current_dir.get() = directory
refresh_tree(directory) ==
    IF RefreshAccepted(is_loading)
    THEN /\ is_loading' = TRUE
         /\ status_text' = <<"Loading">>
         /\ tree' = EmptyTree
         /\ tree_items' = <<>>
         /\ checked_items' = ClearedSelection(checked_items)
         /\ threads' = Append(threads,
                [directory |-> directory, patterns |-> <<>>, pc |-> 0])
         /\ UNCHANGED <<after_queue, clipboard>>
    ELSE UNCHANGED <<is_loading, status_text, tree, tree_items, checked_items,
                     threads, after_queue, clipboard>>

\* the Refresh button
RefreshButton ==
    /\ refresh_tree(current_dir)
    /\ UNCHANGED <<current_dir, config_patterns, recent_directories>>

\* "Keep only last 10"
RecentCap == 10

\* add_recent_directory without its "Remove if already exists"
add_recent_keeps_old_entry(recent, directory) ==
    LET inserted == <<directory>> \o recent
    IN  SubSeq(inserted, 1, IF Len(inserted) < RecentCap THEN Len(inserted) ELSE RecentCap)

\* add_recent_directory(directory) on the list recent
add_recent_directory(recent, directory) ==
    LET removed == IF \E i \in 1..Len(recent) : recent[i] = directory
                   THEN LET i == CHOOSE k \in 1..Len(recent) :
                                    /\ recent[k] = directory
                                    /\ \A j \in 1..(k - 1) : recent[j] # directory
                        IN  SubSeq(recent, 1, i - 1) \o SubSeq(recent, i + 1, Len(recent))
                   ELSE recent
        inserted == <<directory>> \o removed
    IN  SubSeq(inserted, 1, IF Len(inserted) < RecentCap THEN Len(inserted) ELSE RecentCap)

\* load_directory(directory): Browse..., Open Directory... and the recent menu
LoadDirectory(directory) ==
    IF isdir(directory)
    THEN /\ current_dir' = directory
         /\ recent_directories' = add_recent_directory(recent_directories, directory)
         /\ refresh_tree(directory)
         /\ UNCHANGED config_patterns
    ELSE UNCHANGED vars

\* save_patterns() of the Edit Ignored Patterns dialog
SavePatterns(new_patterns) ==
    /\ config_patterns' = new_patterns
    /\ refresh_tree(current_dir)
    /\ UNCHANGED <<current_dir, recent_directories>>

\* the main loop runs the oldest callback scheduled with after(0, ...)
RunCallback ==
    /\ after_queue # <<>>
    /\ after_queue' = Tail(after_queue)
    /\ IF Head(after_queue).set = "is_loading"
       THEN is_loading' = Head(after_queue).to /\ UNCHANGED status_text
       ELSE status_text' = Head(after_queue).to /\ UNCHANGED is_loading
    /\ UNCHANGED <<current_dir, config_patterns, recent_directories, tree,
                   tree_items, checked_items, threads, clipboard>>

----------------------------------------------------------------------------
Init ==
    /\ current_dir \in Roots
    /\ config_patterns \in PatternChoices
    /\ recent_directories = <<current_dir>>
    /\ is_loading = TRUE
    /\ status_text = <<"Loading">>
    /\ tree = EmptyTree
    /\ tree_items = <<>>
    /\ checked_items = {}
    /\ threads = <<[directory |-> current_dir, patterns |-> <<>>, pc |-> 0]>>
    /\ after_queue = <<>>
    /\ clipboard = <<>>

Worker ==
    \E i \in 1..Len(threads) :
        \/ WorkerReadConfig(i)
        \/ WorkerAfter(i)
        \/ WorkerInsert(i)
        \/ WorkerRegister(i)

Next ==
    \/ Worker
    \/ RunCallback
    \/ RefreshButton
    \/ \E d \in Roots \cup {NotADir} : LoadDirectory(d)
    \/ \E p \in PatternChoices : SavePatterns(p)
    \/ \E item_id \in Rows, land \in BOOLEAN : OnTreeClick(item_id, land)
    \/ \E item_id \in Rows, land \in BOOLEAN : OnTreeDoubleClick(item_id, land)
    \/ \E land \in BOOLEAN : CheckAll(land)
    \/ \E land \in BOOLEAN : UncheckAll(land)
    \/ \E land \in BOOLEAN : GenerateOutput(land)

Spec == Init /\ [][Next]_vars

----------------------------------------------------------------------------
(* Helpers of the properties *)

\* x lies below d in the tree widget
RECURSIVE Below(_, _, _)
Below(tr, x, d) ==
    /\ x # RootId
    /\ \/ tr[x].parent = d
       \/ Below(tr, tr[x].parent, d)

\* a walk is in flight: a load_tree_thread thread is alive
WalkInFlight == threads # <<>>

\* a call of refresh_tree: the Refresh button, load_directory on a directory,
\* or saving the ignore patterns
RefreshCall ==
    \/ RefreshButton
    \/ \E d \in Roots : LoadDirectory(d)
    \/ \E p \in PatternChoices : SavePatterns(p)

\* the checkbox column of every registered row says what checked_items says
WidgetAgrees ==
    \A x \in DOMAIN tree_items :
        (tree[x].values[1] = Checked) <=> (x \in checked_items)

----------------------------------------------------------------------------
(* C1: in every reachable state, whatever clicks, Check All, Uncheck All,   *)
(* refreshes and steps of a running walk led to it, no node whose          *)
(* is_ignored flag is true is in checked_items.                            *)
C1_NoIgnoredChecked ==
    \A x \in checked_items : x \in DOMAIN tree_items => ~ tree_items[x].is_ignored

\* an ignored node is registered, and its directory and a sibling are checked:
\* the propagation has passed over the ignored node
C1_Witness ==
    \E x \in DOMAIN tree_items :
        /\ tree_items[x].is_ignored
        /\ tree[x].parent \in checked_items
        /\ \E y \in checked_items : y # x /\ tree[y].parent = tree[x].parent

(* C2: a click on a registered, non-ignored directory leaves every         *)
(* non-ignored node below it, at any depth, in checked_items if and only   *)
(* if the directory is.                                                    *)
C2_TogglePropagates ==
    [][\A d \in Rows, land \in BOOLEAN :
          ( /\ OnTreeClick(d, land)
            /\ Selectable(tree_items, d)
            /\ tree_items[d].type = "directory" )
          => \A x \in DOMAIN tree_items' :
                (Below(tree', x, d) /\ ~ tree_items'[x].is_ignored)
                => ((x \in checked_items') <=> (d \in checked_items'))]_vars

(* C3: a click on a registered, non-ignored row flips its membership in    *)
(* checked_items; a click on an ignored or unregistered row leaves         *)
(* checked_items as it was; and the checkbox value the decision is read    *)
(* from always agrees with checked_items.                                  *)
C3_ToggleFlips ==
    /\ []WidgetAgrees
    /\ [][\A id \in Rows, land \in BOOLEAN :
             OnTreeClick(id, land)
             => IF Selectable(tree_items, id)
                THEN (id \in checked_items') <=> (id \notin checked_items)
                ELSE checked_items' = checked_items]_vars

\* a file is checked and its directory is not: only a click on the file
\* itself leaves that
C3_Witness ==
    \E x \in checked_items :
        /\ x \in DOMAIN tree_items
        /\ tree_items[x].type = "file"
        /\ tree[x].parent # RootId
        /\ tree[x].parent \notin checked_items

(* C4: from any tree and any selection, uncheck_all after check_all leaves *)
(* checked_items empty; and so does every Uncheck All step, whatever       *)
(* happened since the last Check All.                                      *)
C4_UncheckAfterCheck ==
    /\ [](uncheck_all(check_all(Selection, tree_items), tree_items).checked = {})
    /\ [][\A land \in BOOLEAN : UncheckAll(land) => checked_items' = {}]_vars

\* a state Check All has left (every selectable row is checked), with a file
\* two directories deep among them
C4_Witness ==
    /\ check_all(Selection, tree_items) = Selection
    /\ \E x \in checked_items :
          /\ tree_items[x].type = "file"
          /\ tree[x].parent # RootId
          /\ tree[tree[x].parent].parent # RootId

(* C6: at most one walk runs at any time, and a refresh_tree call made     *)
(* while a walk is in flight starts no thread, schedules nothing, does not *)
(* touch the running walk and changes neither the tree nor the selection.  *)
C6_OneWalk ==
    /\ [](Len(threads) <= 1)
    /\ [][(WalkInFlight /\ RefreshCall)
          => UNCHANGED <<threads, after_queue, is_loading, tree, tree_items,
                         checked_items>>]_vars

\* load_directory was called while a walk was in flight: the walk goes on in
\* the directory it started with, and rows of it are checked
C6_Witness ==
    /\ Len(threads) = 1
    /\ threads[1].directory # current_dir
    /\ threads[1].pc > 1
    /\ checked_items # {}

(* C7: the worker builds its tree on its own and leaves the installing to  *)
(* the main thread: no step of the worker changes the tree widget or       *)
(* tree_items that the handlers of the main thread read.                   *)
C7_WorkerLeavesTreeAlone ==
    [][Worker => UNCHANGED <<tree, tree_items>>]_vars

(* C8 as claimed: after every call of refresh_tree, checked_items is empty.*)
C8_RefreshAlwaysClears ==
    [][RefreshCall => checked_items' = {}]_vars

(* C8: after every call of refresh_tree made while is_loading is false,    *)
(* checked_items is empty; a call made while is_loading is true returns at *)
(* once and leaves checked_items as it was.                                *)
C8_RefreshClears ==
    [][RefreshCall => IF is_loading THEN checked_items' = checked_items
                      ELSE checked_items' = {}]_vars

\* a refresh has just been accepted (the new thread has not started, the tree
\* is empty) after a render that held the content of a checked file
C8_Witness ==
    /\ threads = <<[directory |-> current_dir, patterns |-> <<>>, pc |-> 0]>>
    /\ tree = EmptyTree
    /\ checked_items = {}
    /\ \E k \in 1..Len(clipboard) : clipboard[k].text = Separator

----------------------------------------------------------------------------
(* Helpers of the rendering properties *)

\* line i of out is the name line of path
NameLineAt(out, i, path) ==
    /\ out[i].text = basename(path)
    /\ out[i].prefix # <<>>
    /\ out[i].prefix[Len(out[i].prefix)] \in {ConnLast, ConnTee}

\* the prefix of what is printed under the name line with this prefix
UnderPrefix(prefix) ==
    [prefix EXCEPT ![Len(prefix)] = IF @ = ConnLast THEN GuideGap ELSE GuideBar]

\* out holds the content block of the file path: its name line, its lines
\* each behind the prefix, and the separator of 40 dashes
HasContentBlock(out, path) ==
    \E i \in 1..Len(out) :
        /\ NameLineAt(out, i, path)
        /\ LET lines == Split(FileBytes(path))
               under == UnderPrefix(out[i].prefix)
           IN  /\ i + Len(lines) + 1 <= Len(out)
               /\ \A k \in 1..Len(lines) : out[i + k] = Line(under, lines[k])
               /\ out[i + Len(lines) + 1] = Line(under, Separator)

\* out holds the name line of path, one line under it with this text, and
\* nothing else under it
HasNameAndOneLine(out, path, texts) ==
    \E i \in 1..Len(out) :
        /\ NameLineAt(out, i, path)
        /\ i + 1 <= Len(out)
        /\ out[i + 1].prefix = UnderPrefix(out[i].prefix)
        /\ out[i + 1].text \in texts
        /\ i + 2 <= Len(out) => Len(out[i + 2].prefix) <= Len(out[i].prefix)

\* the directory the rows of the tree come from
WalkedRoots ==
    {r \in Roots : \E x \in Rows : tree[x].parent = RootId /\ StartsWith(x[2], r)}

\* the directories the walk has listed: its root and the registered
\* directories it descends into
ListedDirs ==
    WalkedRoots \cup
      {tree_items[x].path : x \in {y \in DOMAIN tree_items : Descends(tree_items[y])}}

\* the directories the walk met and ignored: they match an ignore pattern or
\* are named node_modules
IgnoredDirs ==
    {p \in DirPaths :
        /\ \E d \in ListedDirs :
              \E k \in 1..Len(listdir(d)) : p = join(d, listdir(d)[k])
        /\ should_ignore(p, config_patterns) \/ basename(p) = n_node_modules}

\* the files that are ignored or lie in an ignored directory
IgnoredFiles ==
    {f \in FilePaths :
        \/ should_ignore(f, config_patterns)
        \/ \E d \in DirPaths :
              /\ StartsWith(f, d \o <<"/">>)
              /\ should_ignore(d, config_patterns) \/ basename(d) = n_node_modules}

\* the checked files below a checked directory
CheckedFilesBelowCheckedDir ==
    {f \in checked_items \cap DOMAIN tree_items :
        /\ tree_items[f].type = "file"
        /\ ~ tree_items[f].is_ignored
        /\ \E d \in checked_items \cap DOMAIN tree_items :
              tree_items[d].type = "directory" /\ Below(tree, f, d)}

(* C5: a render holds the content block of every checked, non-ignored file *)
(* below a checked directory, at any depth, and the content block of no    *)
(* ignored file.                                                           *)
C5_RenderHoldsCheckedContent ==
    [][\A land \in BOOLEAN :
          GenerateOutput(land)
          => /\ \A f \in CheckedFilesBelowCheckedDir :
                   HasContentBlock(clipboard', tree_items[f].path)
             /\ \A p \in IgnoredFiles : ~ HasContentBlock(clipboard', p)]_vars

(* C9: once the walk is over, every directory that matches an ignore       *)
(* pattern or is named node_modules is a row of the tree, and a render     *)
(* shows it as its name line and exactly one skipped placeholder line.     *)
C9_IgnoredDirPlaceholder ==
    [][\A land \in BOOLEAN :
          (GenerateOutput(land) /\ ~ WalkInFlight)
          => \A p \in IgnoredDirs :
                /\ ItemId(p) \in Rows
                /\ HasNameAndOneLine(clipboard', p,
                                     {NodeModulesSkipped, ContentSkipped})]_vars

(* C10: once the walk is over, a render shows every registered, non-ignored*)
(* directory that has no entries as its name line and one                  *)
(* "(empty directory)" line.                                               *)
C10_EmptyDirPlaceholder ==
    [][\A land \in BOOLEAN :
          (GenerateOutput(land) /\ ~ WalkInFlight)
          => \A x \in DOMAIN tree_items :
                (Descends(tree_items[x]) /\ listdir(tree_items[x].path) = <<>>)
                => HasNameAndOneLine(clipboard', tree_items[x].path,
                                     {EmptyDirectory})]_vars

----------------------------------------------------------------------------
(* Helpers of the walk properties *)

\* the last step of a walk: its thread ends
WalkEnds == threads # <<>> /\ threads' = <<>>

\* the paths of the nodes (the rows registered in items) under row x, in the
\* order of the widget
ChildPaths(tr, items, x) ==
    LET reg == SelectSeq(get_children(tr, x), LAMBDA c : c \in DOMAIN items)
    IN  [k \in 1..Len(reg) |-> items[reg[k]].path]

\* the immediate entries of directory d that pass the ignore filter
EntriesKept(d, patterns) ==
    {p \in {join(d, listdir(d)[k]) : k \in 1..Len(listdir(d))} :
        ~ should_ignore(p, patterns)}

\* the nodes under row x are the kept entries of directory d, each once, of
\* the kind the file system says, directories first, and each group in the
\* order of the lower-cased names
ChildrenAsListed(tr, items, x, d, patterns) ==
    LET ch == ChildPaths(tr, items, x) IN
    /\ {ch[k] : k \in 1..Len(ch)} = EntriesKept(d, patterns)
    /\ Len(ch) = Cardinality(EntriesKept(d, patterns))
    /\ \A k \in 1..Len(ch) :
          (items[ItemId(ch[k])].type = "directory") <=> isdir(ch[k])
    /\ \A i, j \in 1..Len(ch) :
          i < j => /\ isdir(ch[j]) => isdir(ch[i])
                   /\ (isdir(ch[i]) <=> isdir(ch[j]))
                      => ~ StrLess(Lower(basename(ch[j])), Lower(basename(ch[i])))

----------------------------------------------------------------------------
(* Helpers of the content properties *)

\* the checked file nodes whose name line the text out holds
RenderedCheckedFiles(out) ==
    {f \in checked_items \cap DOMAIN tree_items :
        /\ tree_items[f].type = "file"
        /\ \E i \in 1..Len(out) : NameLineAt(out, i, tree_items[f].path)}

\* the number of lines between the name line i of out and the separator
\* line that closes the block under it
BlockLength(out, i) ==
    LET under == UnderPrefix(out[i].prefix)
        ends == {k \in 0..(Len(out) - i - 1) : out[i + k + 1] = Line(under, Separator)}
    IN  IF ends = {} THEN Len(out) - i
        ELSE CHOOSE k \in ends : \A j \in ends : k <= j

(* C12 as claimed, with max_lines = MaxLinesSetting: content retrieval     *)
(* returns at most max_lines lines and one truncation marker line for a    *)
(* file of more lines, and the content block a render holds for a checked  *)
(* file is that long at most; a file of at most max_lines lines is         *)
(* rendered in full.                                                       *)
C12_ContentCapped ==
    [][\A land \in BOOLEAN :
          GenerateOutput(land)
          => \A f \in RenderedCheckedFiles(clipboard') :
                LET path == tree_items[f].path IN
                IF Len(Split(FileBytes(path))) > MaxLinesSetting
                THEN /\ Len(Split(get_file_content(path))) <= MaxLinesSetting + 1
                     /\ \A i \in 1..Len(clipboard') :
                           NameLineAt(clipboard', i, path)
                           => BlockLength(clipboard', i) <= MaxLinesSetting + 1
                ELSE HasContentBlock(clipboard', path)]_vars

(* What the code does where C12 asks for a cap: the content block a render *)
(* holds for a checked file is every line of the text of the file, however *)
(* many, followed by the separator line; no line is a truncation marker.   *)
RenderHoldsFullContent ==
    [][\A land \in BOOLEAN :
          GenerateOutput(land)
          => \A f \in RenderedCheckedFiles(clipboard') :
                HasContentBlock(clipboard', tree_items[f].path)]_vars

\* the clipboard holds the whole content block of b.py, a file of more
\* lines than max_lines
RenderHoldsFullContent_Witness ==
    /\ Len(Split(FileBytes(W_b_py))) > MaxLinesSetting
    /\ HasContentBlock(clipboard, W_b_py)

----------------------------------------------------------------------------
(* The recent list on its own: add_recent_directory called again and again,*)
(* starting from the empty list of DEFAULT_CONFIG.                         *)

\* RecentCap + 2 directories: more than the list can hold
RecentPaths == [k \in 1..(RecentCap + 2) |-> <<"/", "r", Lowers[k]>>]

\* the directories the next call is made with: one of three the user keeps
\* coming back to, or the first directory that is not in the list
RecentCalls ==
    {RecentPaths[k] : k \in 1..3} \cup
      {RecentPaths[CHOOSE k \in 1..Len(RecentPaths) :
          /\ \A i \in 1..Len(recent_directories) : recent_directories[i] # RecentPaths[k]
          /\ \A j \in 1..(k - 1) :
                \E i \in 1..Len(recent_directories) : recent_directories[i] = RecentPaths[j]]}

AddRecentDirectory(directory) ==
    /\ recent_directories' = add_recent_directory(recent_directories, directory)
    /\ UNCHANGED <<current_dir, config_patterns, is_loading, status_text, tree,
                   tree_items, checked_items, threads, after_queue, clipboard>>

InitRecent ==
    /\ current_dir = RootW
    /\ config_patterns = DefaultPatterns
    /\ recent_directories = <<>>
    /\ is_loading = FALSE
    /\ status_text = <<>>
    /\ tree = EmptyTree
    /\ tree_items = <<>>
    /\ checked_items = {}
    /\ threads = <<>>
    /\ after_queue = <<>>
    /\ clipboard = <<>>

NextRecent == \E d \in RecentCalls : AddRecentDirectory(d)

SpecRecent == InitRecent /\ [][NextRecent]_vars

(* C13: starting from the empty list, after any sequence of                *)
(* add_recent_directory calls the list holds no path twice and at most 10  *)
(* entries; and each call puts its directory at index 0 and leaves behind  *)
(* it the other entries in the order they had, the oldest dropped when the *)
(* list would grow past 10.                                                *)
C13_RecentList ==
    /\ [](/\ Len(recent_directories) <= RecentCap
          /\ \A i, j \in 1..Len(recent_directories) :
                i # j => recent_directories[i] # recent_directories[j])
    /\ [][\A d \in RecentCalls :
             AddRecentDirectory(d)
             => LET others == SelectSeq(recent_directories, LAMBDA x : x # d)
                    rest == Tail(recent_directories')
                IN  /\ recent_directories'[1] = d
                    /\ Len(rest) = IF Len(others) < RecentCap - 1
                                   THEN Len(others) ELSE RecentCap - 1
                    /\ \A k \in 1..Len(rest) : rest[k] = others[k]]_vars

\* the list is full, an entry has been dropped from its end, and a directory
\* that was in the list already has been added again: it is at the front and
\* nowhere else
C13_Witness ==
    /\ Len(recent_directories) = RecentCap
    /\ recent_directories[1] = RecentPaths[1]
    /\ recent_directories[2] = RecentPaths[RecentCap + 1]

----------------------------------------------------------------------------
(* C14: in every reachable state, whatever refreshes, steps of the walk,   *)
(* clicks, Check All and Uncheck All led to it, every identity in          *)
(* checked_items is a key of tree_items: the selection holds no row of a   *)
(* tree that refresh_tree has discarded and no row the walk has inserted   *)
(* but not yet registered.                                                 *)
C14_SelectionInTree == checked_items \subseteq DOMAIN tree_items

\* a walk is in flight, a row it has inserted is not registered yet, and
\* rows of the tree it is building are checked
C14_Witness ==
    /\ WalkInFlight
    /\ checked_items # {}
    /\ \E x \in Rows : x[1] = "item" /\ x \notin DOMAIN tree_items

----------------------------------------------------------------------------
(* The walk that raises, and the main loop that keeps running callbacks.   *)

\* A tree.insert of populate_tree raises, and so does the insert of the
\* except clause (line 441) of every populate_tree call it passes through:
\* the exception reaches load_tree_thread, whose except clause (lines
\* 335-337) schedules the error status; the finally clause is the last step
\* of the walk.
WorkerRaises(i) ==
    /\ NextStep(threads[i]).op = "insert"
    /\ after_queue' = Append(after_queue,
           [set |-> "status_text", to |-> <<"Error loading directory">>])
    /\ threads' = [threads EXCEPT
           ![i].pc = Len(WalkOf[threads[i].directory, threads[i].patterns])]
    /\ UNCHANGED <<current_dir, config_patterns, recent_directories, is_loading,
                   status_text, tree, tree_items, checked_items, clipboard>>

\* every step but the render, which leaves the walk and the flag alone
NextLive ==
    \/ Worker
    \/ \E i \in 1..Len(threads) : WorkerRaises(i)
    \/ RunCallback
    \/ RefreshButton
    \/ \E d \in Roots \cup {NotADir} : LoadDirectory(d)
    \/ \E p \in PatternChoices : SavePatterns(p)
    \/ \E item_id \in Rows, land \in BOOLEAN : OnTreeClick(item_id, land)
    \/ \E item_id \in Rows, land \in BOOLEAN : OnTreeDoubleClick(item_id, land)
    \/ \E land \in BOOLEAN : CheckAll(land)
    \/ \E land \in BOOLEAN : UncheckAll(land)

\* mainloop() runs a callback scheduled with after(0, ...) as soon as it is
\* idle: a scheduled callback does not wait for ever
SpecLive == Init /\ [][NextLive]_vars /\ WF_vars(RunCallback)

(* C15: once the worker has ended, by finishing its walk or by raising,    *)
(* is_loading is eventually False (the main loop running the scheduled     *)
(* callbacks); and a refresh_tree call made while is_loading is False is   *)
(* accepted: it sets the flag and starts the one new walk.                 *)
C15_LoadingReset ==
    /\ (threads = <<>>) ~> (is_loading = FALSE)
    /\ [][(~ is_loading /\ RefreshCall)
          => /\ is_loading'
             /\ threads' = <<[directory |-> current_dir', patterns |-> <<>>,
                              pc |-> 0]>>]_vars

\* a walk has raised and ended, the error status and the reset of the flag
\* have been run, and a refresh would now be accepted
C15_Witness ==
    /\ threads = <<>>
    /\ after_queue = <<>>
    /\ is_loading = FALSE
    /\ status_text = <<"Error loading directory">>

----------------------------------------------------------------------------
(* C16: once no walk is in flight, the tree that generate_output renders   *)
(* was built from the directory held in current_dir, whenever and in       *)
(* whatever state load_directory was called: the rows of the tree are      *)
(* entries of current_dir, the directory the header line names.            *)
C16_TreeOfCurrentDir ==
    ~ WalkInFlight => WalkedRoots \subseteq {current_dir}
====
